---------------------------- MODULE Spec2Model ----------------------------
(***************************************************************************)
(* Model of cad_logging/logging.py:                                        *)
(*   - CustomRotatingFileHandler (the rotating file sink),                 *)
(*   - LogServerHandler (the remote HTTP sink with its re-entrancy guard), *)
(*   - enable_logging / enable_exception_handler (the configuration glue). *)
(* The three parts are independent of each other; each has its own         *)
(* specification over the module's variables.                              *)
(***************************************************************************)
EXTENDS Integers, Sequences, FiniteSets, TLC

(***************************************************************************)
(* Bounds of the model.                                                    *)
(***************************************************************************)
MaxWrites == 3        \* log calls made through the file sink
MaxRecLen == 2        \* longest formatted record, newline included
MaxMaxBytes == 3      \* largest size threshold tried (0 = no rotation)
MaxOld == 1           \* largest size of a log file left by an earlier run
MaxCalls == 4         \* emit calls made on the remote sink, nested ones included
MaxDepth == 2         \* emit calls of one thread in progress at once

VARIABLES
    \* ---- CustomRotatingFileHandler and the directory it writes to
    files,            \* existing files: 0 is baseFilename, k is "<baseFilename>.k"
    stream,           \* "open" or "None" (self.stream)
    last_backup_cnt,  \* self.last_backup_cnt
    maxBytes,         \* self.maxBytes
    delay,            \* self.delay
    mode,             \* self.mode
    faulty,           \* whether the file system may fail a rename or an open
    emptyRule,        \* library build never rolls an empty file over
    log,              \* history: one entry per write
    snap,             \* history: content of each backup when it was created
    \* ---- LogServerHandler and the threads calling its emit
    threads,          \* the threads that log through the handler
    entered,          \* self._entered
    stack,            \* per thread: its emit calls in progress, innermost last
    hist,             \* history, per thread: how each outermost emit ended
    posts,            \* history: requests.post calls made so far
    ncalls,           \* history: emit calls made so far
    \* ---- enable_logging, the root logger and the exception hook
    cfg,              \* the arguments of enable_logging and its environment
    rootHandlers,     \* logging.root.handlers, in registration order
    rootLevel,        \* logging.root.level
    excepthook,       \* sys.excepthook
    enStep,           \* the part of enable_logging to run next
    enErr,            \* the part of enable_logging that raised, or "none"
    exctype,          \* the type of the uncaught exception, or "none"
    pcH,              \* where the handling of the uncaught exception is
    hIdx,             \* the root handler logging.exception calls next
    trace,            \* history: what the uncaught exception went through
    proc              \* how the process ended, or "running"

fileVars == <<files, stream, last_backup_cnt, maxBytes, delay, mode, faulty,
              emptyRule, log, snap>>

emitVars == <<threads, entered, stack, hist, posts, ncalls>>

appVars == <<cfg, rootHandlers, rootLevel, excepthook, enStep, enErr, exctype,
             pcH, hIdx, trace, proc>>

vars == <<fileVars, emitVars, appVars>>

(***************************************************************************)
(* Helpers on file contents.  A file is the sequence of the records in it; *)
(* a record is [id, len]; id 0 is content left by an earlier process.      *)
(***************************************************************************)
RECURSIVE Size(_)
Size(c) == IF c = <<>> THEN 0 ELSE Head(c).len + Size(Tail(c))

Ids(c) == {c[i].id : i \in 1..Len(c)}

OldContent(n) == IF n = 0 THEN <<>> ELSE <<[id |-> 0, len |-> n]>>

\* os.rename(source, dest): dest is replaced when it exists
Rename(fs, src, dst) ==
    [n \in (DOMAIN fs \ {src}) \cup {dst} |-> IF n = dst THEN fs[src] ELSE fs[n]]

\* FileHandler._open(): open(baseFilename, mode); creates or (mode w) truncates
OpenFile(fs, m) ==
    IF 0 \in DOMAIN fs /\ m = "a"
    THEN fs
    ELSE [n \in DOMAIN fs \cup {0} |-> IF n = 0 THEN <<>> ELSE fs[n]]

\* RotatingFileHandler.__init__: "if maxBytes > 0: mode = 'a'"
EffectiveModes(mb) == IF mb > 0 THEN {"a"} ELSE {"a", "w"}

(***************************************************************************)
(* RotatingFileHandler.shouldRollover(record), inherited unchanged.        *)
(* Opens the stream when delay left it closed, then compares               *)
(* stream.tell() + len(msg) with maxBytes.                                 *)
(***************************************************************************)
\* Variant: the size test with > in place of >=.
RolloverDue_Strict(pos, len, mb, er) ==
    /\ mb > 0
    /\ ~(er /\ pos = 0)
    /\ pos + len > mb

RolloverDue(pos, len, mb, er) ==
    /\ mb > 0
    /\ ~(er /\ pos = 0)
    /\ pos + len >= mb

shouldRollover(fs, strm, len, mb, m, er) ==
    LET fs1 == IF strm = "None" THEN OpenFile(fs, m) ELSE fs
    IN  [fs |-> fs1, stream |-> "open", pos |-> Size(fs1[0]),
         roll |-> RolloverDue(Size(fs1[0]), len, mb, er)]

(***************************************************************************)
(* CustomRotatingFileHandler.doRollover().                                 *)
(* fault names the system call that fails during this call, if any.        *)
(* The result's err tells whether an exception left doRollover.            *)
(***************************************************************************)
\* Variant: one fixed backup name, as a ring of a single backup would use.
nextName_Fixed(cnt) == 1

nextName(cnt) == cnt

\* Variant: close and reopen without moving the file aside.
doRollover_NoRename(fs, cnt, dly, m, fault) ==
    [fs |-> fs, stream |-> IF dly THEN "None" ELSE "open",
     cnt |-> cnt + 1, err |-> FALSE]

\* Variant: a failed rename or open is swallowed and the rollover goes on.
doRollover_Swallow(fs, cnt, dly, m, fault) ==
    LET cnt1 == cnt + 1
        fs1 == IF 0 \in DOMAIN fs /\ fault # "rename"
               THEN Rename(fs, 0, nextName(cnt1)) ELSE fs
    IN  IF dly THEN [fs |-> fs1, stream |-> "None", cnt |-> cnt1, err |-> FALSE]
        ELSE [fs |-> OpenFile(fs1, m), stream |-> "open", cnt |-> cnt1,
              err |-> FALSE]

doRollover(fs, cnt, dly, m, fault) ==
    LET cnt1 == cnt + 1                                   \* line 34
    IN  IF 0 \in DOMAIN fs /\ fault = "rename"            \* line 36 raises
        THEN [fs |-> fs, stream |-> "None", cnt |-> cnt1, err |-> TRUE]
        ELSE LET fs1 == IF 0 \in DOMAIN fs                \* rotate(): rename if it exists
                        THEN Rename(fs, 0, nextName(cnt1)) ELSE fs
             IN  IF dly                                   \* line 38
                 THEN [fs |-> fs1, stream |-> "None", cnt |-> cnt1, err |-> FALSE]
                 ELSE IF fault = "open"                   \* line 39 raises
                      THEN [fs |-> fs1, stream |-> "None", cnt |-> cnt1,
                            err |-> TRUE]
                      ELSE [fs |-> OpenFile(fs1, m), stream |-> "open",
                            cnt |-> cnt1, err |-> FALSE]

(***************************************************************************)
(* FileHandler.emit(record): open the stream if it is closed, then         *)
(* StreamHandler.emit writes the formatted record and a newline.           *)
(***************************************************************************)
FileHandlerEmit(fs, strm, rec, m, fault) ==
    IF strm = "None" /\ fault = "open"
    THEN [fs |-> fs, stream |-> "None", err |-> TRUE]
    ELSE LET fs1 == IF strm = "None" THEN OpenFile(fs, m) ELSE fs
         IN  [fs |-> [fs1 EXCEPT ![0] = Append(@, rec)], stream |-> "open",
              err |-> FALSE]

(***************************************************************************)
(* BaseRotatingHandler.emit(record), inherited unchanged: the handler of   *)
(* one log call.  Any Exception of the three steps goes to handleError,    *)
(* which reports on stderr and returns.                                    *)
(***************************************************************************)
RotatingEmit(fs, strm, cnt, dly, mb, m, er, rec, fault) ==
    LET sr == shouldRollover(fs, strm, rec.len, mb, m, er)
    IN  IF sr.roll
        THEN LET ro == doRollover(sr.fs, cnt, dly, m, fault)
             IN  IF ro.err
                 THEN [fs |-> ro.fs, stream |-> ro.stream, cnt |-> ro.cnt,
                       rolls |-> 1, outcome |-> "handleError", pos |-> sr.pos]
                 ELSE LET fe == FileHandlerEmit(ro.fs, ro.stream, rec, m, fault)
                      IN  [fs |-> fe.fs, stream |-> fe.stream, cnt |-> ro.cnt,
                           rolls |-> 1, pos |-> sr.pos,
                           outcome |-> IF fe.err THEN "handleError" ELSE "written"]
        ELSE LET fe == FileHandlerEmit(sr.fs, sr.stream, rec, m, "none")
             IN  [fs |-> fe.fs, stream |-> fe.stream, cnt |-> cnt,
                  rolls |-> 0, pos |-> sr.pos, outcome |-> "written"]

FaultChoices == IF faulty THEN {"none", "rename", "open"} ELSE {"none"}

\* One log call reaching the file sink.
Write(len, fault) ==
    /\ Len(log) < MaxWrites
    /\ fault # "none" =>
           shouldRollover(files, stream, len, maxBytes, mode, emptyRule).roll
    /\ LET rec == [id |-> Len(log) + 1, len |-> len]
           r == RotatingEmit(files, stream, last_backup_cnt, delay, maxBytes,
                             mode, emptyRule, rec, fault)
       IN  /\ files' = r.fs
           /\ stream' = r.stream
           /\ last_backup_cnt' = r.cnt
           /\ log' = Append(log, [id |-> rec.id, len |-> len, pos |-> r.pos,
                                  rolls |-> r.rolls, outcome |-> r.outcome,
                                  epoch |-> r.cnt,
                                  fault |-> fault])
           /\ snap' = [k \in DOMAIN snap \cup
                              {n \in DOMAIN r.fs \ {0} :
                                   n \notin DOMAIN files \/ r.fs[n] # files[n]}
                          |-> IF k \in DOMAIN snap THEN snap[k] ELSE r.fs[k]]
    /\ UNCHANGED <<maxBytes, delay, mode, faulty, emptyRule>>
    /\ UNCHANGED <<emitVars, appVars>>

(***************************************************************************)
(* CustomRotatingFileHandler.__init__ over a directory that may hold the   *)
(* log file of an earlier run under the same name.                         *)
(***************************************************************************)
InitFile(f) ==
    /\ faulty = f
    /\ maxBytes \in 0..MaxMaxBytes
    /\ delay \in BOOLEAN
    /\ mode \in EffectiveModes(maxBytes)
    /\ emptyRule \in BOOLEAN
    /\ last_backup_cnt = 0                                 \* line 18
    /\ \E old \in {-1} \cup (0..MaxOld), oldBackup \in BOOLEAN :
          LET base == IF old < 0 THEN <<>> ELSE (0 :> OldContent(old))
              disk == IF oldBackup
                      THEN base @@ (1 :> <<[id |-> -1, len |-> 1]>>)
                      ELSE base
          IN  files = IF delay THEN disk ELSE OpenFile(disk, mode)
    /\ stream = IF delay THEN "None" ELSE "open"
    /\ log = <<>>
    /\ snap = <<>>

NextFile == \E len \in 1..MaxRecLen, fault \in FaultChoices : Write(len, fault)


(***************************************************************************)
(* LogServerHandler.emit(record), one step per statement.                  *)
(* A frame is one call of emit: pc is the statement it is at, exc whether  *)
(* an exception is on its way out, posted the requests.post calls it made, *)
(* postOk whether its POST returned, inner the nested emit calls that have *)
(* returned to it.                                                         *)
(***************************************************************************)
AllThreads == {"T1", "T2"}

NewFrame == [pc |-> "check", exc |-> FALSE, posted |-> 0, postOk |-> FALSE,
             inner |-> 0]

Top(t) == stack[t][Len(stack[t])]

SetTop(t, f) == [stack EXCEPT ![t] = [@ EXCEPT ![Len(@)] = f]]

\* line 54: "if self._entered: return"
\* Variant: no guard test.
ShouldDrop_Never(e) == FALSE

ShouldDrop(e) == e

\* lines 70-71: "with suppress(Exception): requests.post(...)": whether an
\* Exception raised inside the POST leaves the with block
PostEscapes(ok) == FALSE

\* lines 72-73: "finally: self._entered = False"
\* Variant: the guard is cleared on the normal path only (no finally).
GuardAfterEmit_NoFinally(e, exc) == IF exc THEN e ELSE FALSE

GuardAfterEmit(e, exc) == FALSE

\* How a finished call reads to its caller.
FrameResult(f) ==
    IF f.exc THEN "raised"
    ELSE IF f.posted = 0 THEN "dropped"
    ELSE IF f.postOk THEN "posted" ELSE "suppressed"

\* The call on top of t's stack returns (or raises) res to what called it:
\* the program (outermost call), or an emit that was formatting the message
\* (line 60, outside the with block: the exception goes on) or inside
\* requests.post (line 71, inside the with block: the exception is discarded).
ReturnTo(t, res) ==
    LET rest == SubSeq(stack[t], 1, Len(stack[t]) - 1)
    IN  IF rest = <<>>
        THEN /\ stack' = [stack EXCEPT ![t] = <<>>]
             /\ hist' = [hist EXCEPT ![t] = Append(@, res)]
        ELSE LET par == rest[Len(rest)]
                 par1 == [par EXCEPT !.inner = @ + 1]
                 par2 == IF res # "raised" THEN par1
                         ELSE IF par.pc = "build"
                              THEN [par1 EXCEPT !.pc = "finally", !.exc = TRUE]
                              ELSE [par1 EXCEPT !.pc = "finally",
                                                !.exc = PostEscapes(FALSE)]
             IN  /\ stack' = [stack EXCEPT ![t] =
                                 [rest EXCEPT ![Len(rest)] = par2]]
                 /\ hist' = hist

\* The program logs a record: the logging framework calls emit.
CallEmit(t) ==
    /\ stack[t] = <<>>
    /\ ncalls < MaxCalls
    /\ stack' = [stack EXCEPT ![t] = <<NewFrame>>]
    /\ ncalls' = ncalls + 1
    /\ UNCHANGED <<threads, entered, hist, posts>>
    /\ UNCHANGED <<fileVars, appVars>>

\* Code run by emit (the formatting of the record, or the HTTP client) logs
\* a record itself: emit is called again before the first call has returned.
ReenterEmit(t) ==
    /\ stack[t] # <<>>
    /\ Top(t).pc \in {"build", "posting"}
    /\ Len(stack[t]) < MaxDepth
    /\ ncalls < MaxCalls
    /\ stack' = [stack EXCEPT ![t] = Append(@, NewFrame)]
    /\ ncalls' = ncalls + 1
    /\ UNCHANGED <<threads, entered, hist, posts>>
    /\ UNCHANGED <<fileVars, appVars>>

\* lines 54-55
CheckGuard(t) ==
    /\ stack[t] # <<>>
    /\ Top(t).pc = "check"
    /\ IF ShouldDrop(entered)
       THEN ReturnTo(t, "dropped")
       ELSE /\ stack' = SetTop(t, [Top(t) EXCEPT !.pc = "set"])
            /\ hist' = hist
    /\ UNCHANGED <<threads, entered, posts, ncalls>>
    /\ UNCHANGED <<fileVars, appVars>>

\* line 57
SetGuard(t) ==
    /\ stack[t] # <<>>
    /\ Top(t).pc = "set"
    /\ entered' = TRUE
    /\ stack' = SetTop(t, [Top(t) EXCEPT !.pc = "build"])
    /\ UNCHANGED <<threads, hist, posts, ncalls>>
    /\ UNCHANGED <<fileVars, appVars>>

\* lines 59-68: urljoin, self.format(record), socket.gethostname(),
\* getpass.getuser(); any of them may raise, and none is inside the with block
BuildPayload(t, ok) ==
    /\ stack[t] # <<>>
    /\ Top(t).pc = "build"
    /\ stack' = SetTop(t, IF ok THEN [Top(t) EXCEPT !.pc = "post"]
                          ELSE [Top(t) EXCEPT !.pc = "finally", !.exc = TRUE])
    /\ UNCHANGED <<threads, entered, hist, posts, ncalls>>
    /\ UNCHANGED <<fileVars, appVars>>

\* line 71: requests.post is called
Post(t) ==
    /\ stack[t] # <<>>
    /\ Top(t).pc = "post"
    /\ posts' = posts + 1
    /\ stack' = SetTop(t, [Top(t) EXCEPT !.pc = "posting", !.posted = @ + 1])
    /\ UNCHANGED <<threads, entered, hist, ncalls>>
    /\ UNCHANGED <<fileVars, appVars>>

\* lines 70-71: requests.post returns, or raises an Exception
PostReturn(t, ok) ==
    /\ stack[t] # <<>>
    /\ Top(t).pc = "posting"
    /\ stack' = SetTop(t, [Top(t) EXCEPT !.pc = "finally", !.postOk = ok,
                                         !.exc = PostEscapes(ok)])
    /\ UNCHANGED <<threads, entered, hist, posts, ncalls>>
    /\ UNCHANGED <<fileVars, appVars>>

\* lines 72-73, then the call ends
Finally(t) ==
    /\ stack[t] # <<>>
    /\ Top(t).pc = "finally"
    /\ entered' = GuardAfterEmit(entered, Top(t).exc)
    /\ ReturnTo(t, FrameResult(Top(t)))
    /\ UNCHANGED <<threads, posts, ncalls>>
    /\ UNCHANGED <<fileVars, appVars>>

\* LogServerHandler.__init__ (line 48), before any emit
InitEmit(ts) ==
    /\ threads = ts
    /\ entered = FALSE
    /\ stack = [t \in AllThreads |-> <<>>]
    /\ hist = [t \in AllThreads |-> <<>>]
    /\ posts = 0
    /\ ncalls = 0

\* One step of thread t.
EmitStep(t) ==
    \/ CallEmit(t)
    \/ ReenterEmit(t)
    \/ CheckGuard(t)
    \/ SetGuard(t)
    \/ \E ok \in BOOLEAN : BuildPayload(t, ok)
    \/ Post(t)
    \/ \E ok \in BOOLEAN : PostReturn(t, ok)
    \/ Finally(t)

NextSingle == EmitStep("T1")

NextThreads == \E t \in AllThreads : EmitStep(t)

\* emit as one sequential call: what its caller gets back.
EmitOutcome(e, buildOk, postOk) ==
    IF ShouldDrop(e) THEN "dropped"
    ELSE IF ~buildOk THEN "raised"
    ELSE IF postOk THEN "posted"
    ELSE IF PostEscapes(postOk) THEN "raised"
    ELSE "suppressed"


(***************************************************************************)
(* enable_logging and enable_exception_handler.                            *)
(***************************************************************************)
LevelNo(l) ==
    CASE l = "DEBUG" -> 10 [] l = "INFO" -> 20 [] l = "WARNING" -> 30
      [] l = "ERROR" -> 40 [] l = "CRITICAL" -> 50

\* lines 139-141: console_level, or LOGLEVEL, or "WARNING", through
\* logging.getLevelName, which turns an unknown name into "Level <name>"
ConsoleLevel(c) ==
    IF c.console_level # "None" THEN c.console_level
    ELSE IF c.LOGLEVEL = "unset" THEN "WARNING"
    ELSE IF c.LOGLEVEL = "bogus" THEN "Level bogus"
    ELSE c.LOGLEVEL

\* The parts of enable_logging, in the order of its statements.
\* Variant: the exception hook installed before the handlers.
EnableOrder_HookFirst == <<"hook", "fs", "db", "console">>

EnableOrder == <<"fs", "db", "console", "hook">>

Raise(stage) ==
    /\ enErr' = stage
    /\ enStep' = Len(EnableOrder) + 1
    /\ UNCHANGED <<rootHandlers, rootLevel, excepthook>>

Register(kind, level) ==
    /\ rootHandlers' = Append(rootHandlers, [kind |-> kind, level |-> level])
    /\ enStep' = enStep + 1
    /\ UNCHANGED <<enErr, rootLevel, excepthook>>

Skip ==
    /\ enStep' = enStep + 1
    /\ UNCHANGED <<enErr, rootHandlers, rootLevel, excepthook>>

\* lines 119-132: os.makedirs, CustomRotatingFileHandler(...), addHandler
EnableFs ==
    IF ~cfg.enable_fs THEN Skip
    ELSE IF ~cfg.fsOk THEN Raise("fs")
    ELSE Register("file", cfg.fs_level)

\* lines 134-137: LogServerHandler() reads the server file (lines 44-46)
EnableDb ==
    IF ~cfg.enable_db THEN Skip
    ELSE IF ~cfg.serverFile THEN Raise("db")
    ELSE Register("db", cfg.db_level)

\* lines 139-148: setLevel raises ValueError on an unknown level name
EnableConsole ==
    IF ConsoleLevel(cfg) = "Level bogus" THEN Raise("console")
    ELSE /\ rootHandlers' = Append(rootHandlers,
                                   [kind |-> "console",
                                    level |-> ConsoleLevel(cfg)])
         /\ rootLevel' = "DEBUG"
         /\ enStep' = enStep + 1
         /\ UNCHANGED <<enErr, excepthook>>

\* line 150, lines 76-87: sys.excepthook = logging_handler
EnableHook ==
    /\ excepthook' = "logging_handler"
    /\ enStep' = enStep + 1
    /\ UNCHANGED <<enErr, rootHandlers, rootLevel>>

EnableStep ==
    /\ enStep <= Len(EnableOrder)
    /\ LET stage == EnableOrder[enStep]
       IN  CASE stage = "fs" -> EnableFs
             [] stage = "db" -> EnableDb
             [] stage = "console" -> EnableConsole
             [] stage = "hook" -> EnableHook
    /\ UNCHANGED <<cfg, exctype, pcH, hIdx, trace, proc>>
    /\ UNCHANGED <<fileVars, emitVars>>

ExcTypes == {"KeyboardInterrupt", "SubclassOfKeyboardInterrupt", "ValueError"}

\* An exception reaches the top of the program after enable_logging has
\* returned or raised: the interpreter calls sys.excepthook.
Uncaught(x) ==
    /\ enStep > Len(EnableOrder)
    /\ pcH = "idle"
    /\ exctype' = x
    /\ pcH' = "hook"
    /\ UNCHANGED <<cfg, rootHandlers, rootLevel, excepthook, enStep, enErr,
                   hIdx, trace, proc>>
    /\ UNCHANGED <<fileVars, emitVars>>

\* lines 79-83: logging_handler up to the call of logging.exception; with
\* the hook not installed, the interpreter's own sys.__excepthook__
HookEnter ==
    /\ pcH = "hook"
    /\ IF excepthook = "default"
       THEN /\ trace' = Append(trace, "sys.__excepthook__")
            /\ pcH' = "done"
            /\ proc' = "crashed"
            /\ hIdx' = hIdx
       ELSE IF exctype = "KeyboardInterrupt"                  \* line 80
       THEN /\ proc' = "exit0"                                \* line 81
            /\ pcH' = "done"
            /\ UNCHANGED <<trace, hIdx>>
       ELSE /\ trace' = Append(trace, "logging.exception")    \* line 83
            /\ pcH' = "handlers"
            /\ hIdx' = 1
            /\ proc' = proc
    /\ UNCHANGED <<cfg, rootHandlers, rootLevel, excepthook, enStep, enErr,
                   exctype>>
    /\ UNCHANGED <<fileVars, emitVars>>

\* line 83: logging.exception hands the ERROR record to the next root
\* handler whose level lets it through.  The file and console handlers keep
\* their errors to themselves; LogServerHandler.emit may raise, and then
\* the exception leaves logging.exception and the hook.
HandlerStep(buildOk, postOk) ==
    /\ pcH = "handlers"
    /\ hIdx <= Len(rootHandlers)
    /\ LET h == rootHandlers[hIdx]
           res == IF h.kind = "db" THEN EmitOutcome(FALSE, buildOk, postOk)
                  ELSE "written"
       IN  IF LevelNo("ERROR") < LevelNo(h.level)
           THEN /\ hIdx' = hIdx + 1
                /\ UNCHANGED <<trace, pcH, proc>>
           ELSE IF res = "raised"
           THEN /\ trace' = Append(trace, "emit raised")
                /\ pcH' = "done"
                /\ proc' = "hook raised"
                /\ hIdx' = hIdx
           ELSE /\ trace' = Append(trace, h.kind)
                /\ hIdx' = hIdx + 1
                /\ UNCHANGED <<pcH, proc>>
    /\ UNCHANGED <<cfg, rootHandlers, rootLevel, excepthook, enStep, enErr,
                   exctype>>
    /\ UNCHANGED <<fileVars, emitVars>>

\* line 84: sys.__excepthook__(exctype, value, tb)
Forward ==
    /\ pcH = "handlers"
    /\ hIdx > Len(rootHandlers)
    /\ trace' = Append(trace, "sys.__excepthook__")
    /\ pcH' = "done"
    /\ proc' = "crashed"
    /\ UNCHANGED <<cfg, rootHandlers, rootLevel, excepthook, enStep, enErr,
                   exctype, hIdx>>
    /\ UNCHANGED <<fileVars, emitVars>>

Configs ==
    [enable_fs : BOOLEAN, fsOk : BOOLEAN, fs_level : {"INFO", "CRITICAL"},
     enable_db : BOOLEAN, serverFile : BOOLEAN, db_level : {"INFO", "CRITICAL"},
     console_level : {"None", "ERROR", "CRITICAL"},
     LOGLEVEL : {"unset", "DEBUG", "bogus"}]

\* The process as enable_logging is called.
InitApp(cs) ==
    /\ cfg \in cs
    /\ rootHandlers = <<>>
    /\ rootLevel = "WARNING"
    /\ excepthook = "default"
    /\ enStep = 1
    /\ enErr = "none"
    /\ exctype = "none"
    /\ pcH = "idle"
    /\ hIdx = 0
    /\ trace = <<>>
    /\ proc = "running"

NextApp ==
    \/ EnableStep
    \/ \E x \in ExcTypes : Uncaught(x)
    \/ HookEnter
    \/ \E buildOk \in BOOLEAN, postOk \in BOOLEAN : HandlerStep(buildOk, postOk)
    \/ Forward

\* The parts of the process a specification leaves alone.
FileIdle ==
    /\ faulty = FALSE /\ maxBytes = 0 /\ delay = TRUE /\ mode = "a"
    /\ emptyRule = FALSE /\ last_backup_cnt = 0 /\ files = <<>>
    /\ stream = "None" /\ log = <<>> /\ snap = <<>>

EmitIdle == InitEmit({})

AppIdle ==
    InitApp({[enable_fs |-> FALSE, fsOk |-> TRUE, fs_level |-> "INFO",
              enable_db |-> FALSE, serverFile |-> TRUE, db_level |-> "INFO",
              console_level |-> "None", LOGLEVEL |-> "unset"]})

\* The file sink over a file system that does not fail.
Init == InitFile(FALSE) /\ EmitIdle /\ AppIdle

Next == NextFile

Spec == Init /\ [][Next]_vars

\* The remote sink used by one thread.
InitSingle == InitEmit({"T1"}) /\ FileIdle /\ AppIdle

SpecEmit == InitSingle /\ [][NextSingle]_vars

\* The remote sink used by two threads calling emit directly.
InitThreads == InitEmit(AllThreads) /\ FileIdle /\ AppIdle

SpecThreads == InitThreads /\ [][NextThreads]_vars

\* enable_logging, then an uncaught exception.
InitEnable == InitApp(Configs) /\ FileIdle /\ EmitIdle

SpecApp == InitEnable /\ [][NextApp]_vars


\* The file sink over a file system that may fail a rename or an open.
InitFault == InitFile(TRUE) /\ EmitIdle /\ AppIdle

SpecFault == InitFault /\ [][Next]_vars

(***************************************************************************)
(* Properties of the file sink.                                            *)
(***************************************************************************)
Rolled(n) == Cardinality({i \in 1..n : log[i].rolls = 1})

\* The records this handler wrote while the counter was e, in write order.
RECURSIVE RecsFrom(_, _)
RecsFrom(i, e) ==
    IF i > Len(log) THEN <<>>
    ELSE IF log[i].epoch = e /\ log[i].outcome = "written"
         THEN <<[id |-> log[i].id, len |-> log[i].len]>> \o RecsFrom(i + 1, e)
         ELSE RecsFrom(i + 1, e)

IsOwn(rec) == rec.id >= 1

Own(c) == SelectSeq(c, IsOwn)

AllFilesIds == UNION {Ids(files[n]) : n \in DOMAIN files}

\* C4: the backup counter starts at 0 and grows by exactly 1 per rollover;
\* after N rollovers the backups this handler created are exactly
\* <path>.1 .. <path>.N, the k-th rollover made <path>.k, and every backup
\* still holds the content it was created with.
C4_BackupsNumberedAndKept ==
    /\ last_backup_cnt = Rolled(Len(log))
    /\ DOMAIN snap = 1..Rolled(Len(log))
    /\ \A i \in 1..Len(log) : log[i].rolls = 1 => log[i].epoch = Rolled(i)
    /\ \A k \in DOMAIN snap : k \in DOMAIN files /\ files[k] = snap[k]

C4_Witness ==
    /\ Len(log) = 3
    /\ \A i \in 1..3 : log[i].rolls = 1
    /\ {1, 2, 3} \subseteq DOMAIN files
    /\ files[1] # <<>> /\ files[2] # <<>>

\* C5 as stated: with maxBytes > 0 a write that keeps the size at or below
\* maxBytes rolls nothing over and a write that pushes it over rolls over
\* exactly once; with maxBytes = 0 nothing is ever rolled over.
C5_AsStated ==
    \A i \in 1..Len(log) :
        /\ maxBytes = 0 => log[i].rolls = 0
        /\ (maxBytes > 0 /\ log[i].pos + log[i].len <= maxBytes)
               => log[i].rolls = 0
        /\ (maxBytes > 0 /\ log[i].pos + log[i].len > maxBytes)
               => log[i].rolls = 1

\* C5 amended: a write that leaves the size strictly below maxBytes rolls
\* nothing over; a write to a non-empty file that makes the size reach or
\* exceed maxBytes (> 0) rolls over exactly once, before the record is
\* written (the record is alone in the fresh file, the backup has none of
\* it); an empty file is rolled over or not, by the library build, but never
\* more than once; with maxBytes = 0 nothing is ever rolled over.
C5_RolloverThreshold ==
    /\ \A i \in 1..Len(log) :
        /\ log[i].rolls \in {0, 1}
        /\ maxBytes = 0 => log[i].rolls = 0
        /\ log[i].pos + log[i].len < maxBytes => log[i].rolls = 0
        /\ (maxBytes > 0 /\ log[i].pos > 0
              /\ log[i].pos + log[i].len >= maxBytes) => log[i].rolls = 1
    /\ (Len(log) > 0 /\ log[Len(log)].rolls = 1) =>
          LET e == log[Len(log)]
          IN  /\ files[0] = <<[id |-> e.id, len |-> e.len]>>
              /\ e.id \notin Ids(files[last_backup_cnt])
              /\ Size(files[last_backup_cnt]) = e.pos

C5_Witness ==
    /\ Len(log) = 2
    /\ maxBytes > 0
    /\ log[1].rolls = 0
    /\ log[2].pos > 0
    /\ log[2].pos + log[2].len = maxBytes
    /\ log[2].rolls = 1

\* C6: every record written through the handler is whole in exactly one
\* file: <path>.k holds exactly the records written between rollover k-1
\* and rollover k, in order, and <path> holds exactly those written after
\* the last rollover, with and without delay.
C6_RecordsPartitioned ==
    /\ \A k \in 1..last_backup_cnt :
          k \in DOMAIN files /\ Own(files[k]) = RecsFrom(1, k - 1)
    /\ IF 0 \in DOMAIN files
       THEN Own(files[0]) = RecsFrom(1, last_backup_cnt)
       ELSE RecsFrom(1, last_backup_cnt) = <<>>
    /\ \A i \in 1..Len(log) :
          Cardinality({n \in DOMAIN files : log[i].id \in Ids(files[n])}) = 1

C6_Witness ==
    /\ delay
    /\ last_backup_cnt = 2
    /\ Len(files[1]) = 2
    /\ Len(files[0]) = 1
    /\ Len(log) = 3

\* C7 as stated: an error of the rename or of the reopen during a rollover
\* reaches the caller of the log call.
C7_AsStated ==
    \A i \in 1..Len(log) :
        (log[i].rolls = 1 /\ log[i].fault # "none") => log[i].outcome = "raised"

\* C7 amended: doRollover neither catches the error nor retries (one
\* attempt: the counter moved by one, the stream stays closed, the record
\* is in no file); the error leaves doRollover and is handed to handleError
\* by the inherited emit, so the log call itself returns normally.
C7_RolloverErrorHandled ==
    /\ \A i \in 1..Len(log) :
        (log[i].rolls = 1 /\ log[i].fault # "none") =>
            /\ log[i].outcome = "handleError"
            /\ log[i].id \notin AllFilesIds
            /\ log[i].epoch = (IF i = 1 THEN 0 ELSE log[i - 1].epoch) + 1
    /\ (Len(log) > 0 /\ log[Len(log)].fault # "none") => stream = "None"

C7_Witness ==
    /\ Len(log) = 2
    /\ log[1].fault = "rename"
    /\ log[2].fault = "open"
    /\ ~delay

(***************************************************************************)
(* Properties of the remote sink.                                          *)
(***************************************************************************)
Sent(h) == Cardinality({i \in 1..Len(h) : h[i] \in {"posted", "suppressed"}})

InFlightPosts(t) == IF stack[t] = <<>> THEN 0 ELSE stack[t][1].posted

\* C1: an emit called while an earlier emit of the same handler is in
\* flight on the same thread (guard set) returns at once: no POST, the guard
\* stays set, the outer call is where it was; and the outer record gets at
\* most one POST, exactly one once its payload is built.
C1_ReentrantEmitIsNoOp ==
    /\ [][\A t \in threads :
            (Len(stack[t]) >= 2 /\ Top(t).pc = "check" /\ entered
               /\ stack'[t] # stack[t])
            => /\ entered'
               /\ posts' = posts
               /\ hist' = hist
               /\ stack'[t] = <<[stack[t][1] EXCEPT !.inner = @ + 1]>>]_vars
    /\ [](\A t \in threads :
            /\ \A i \in 2..Len(stack[t]) : stack[t][i].posted = 0
            /\ stack[t] # <<>> =>
                 /\ stack[t][1].posted <= 1
                 /\ (stack[t][1].pc = "posting"
                       \/ (stack[t][1].pc = "finally" /\ ~stack[t][1].exc))
                      => stack[t][1].posted = 1
            /\ posts = Sent(hist[t]) + InFlightPosts(t))

C1_Witness ==
    /\ Len(stack["T1"]) = 1
    /\ stack["T1"][1].pc = "finally"
    /\ stack["T1"][1].inner = 2
    /\ stack["T1"][1].posted = 1
    /\ posts = 1
    /\ entered

\* C2 as stated: emit never lets an error reach its caller, whether it comes
\* from building the payload or from the POST.
C2_AsStated ==
    \A t \in threads : \A i \in 1..Len(hist[t]) : hist[t][i] # "raised"

\* C3: whenever no emit is in flight the guard is clear, whatever way the
\* earlier emits ended, so an emit called by the program is never dropped,
\* and one that ends without an error has made its POST.
C3_GuardClearedAfterEmit ==
    /\ stack["T1"] = <<>> => ~entered
    /\ \A i \in 1..Len(hist["T1"]) : hist["T1"][i] # "dropped"
    /\ (stack["T1"] # <<>> /\ stack["T1"][1].pc # "check") =>
          (entered \/ stack["T1"][1].pc = "set")

C3_Witness ==
    /\ Len(hist["T1"]) = 3
    /\ hist["T1"][1] = "raised"
    /\ hist["T1"][2] = "suppressed"
    /\ hist["T1"][3] = "posted"
    /\ posts = 2
    /\ ~entered

\* C9 as stated: when two threads call emit on one handler, each call goes
\* on to its own POST; the guard never drops another thread's emit.
C9_AsStated ==
    \A t \in threads : \A i \in 1..Len(hist[t]) : hist[t][i] # "dropped"

(***************************************************************************)
(* Properties of enable_logging and of the exception hook.                 *)
(***************************************************************************)
Kinds == [i \in 1..Len(rootHandlers) |-> rootHandlers[i].kind]

Count(sq, x) == Cardinality({i \in 1..Len(sq) : sq[i] = x})

\* C8 as stated: with the hook installed, an uncaught exception that is not
\* KeyboardInterrupt is logged and then forwarded to sys.__excepthook__,
\* once each, in that order; KeyboardInterrupt is neither, and exits with 0.
C8_AsStated ==
    (pcH = "done" /\ excepthook = "logging_handler") =>
        IF exctype = "KeyboardInterrupt"
        THEN trace = <<>> /\ proc = "exit0"
        ELSE /\ trace[1] = "logging.exception"
             /\ trace[Len(trace)] = "sys.__excepthook__"
             /\ Count(trace, "logging.exception") = 1
             /\ Count(trace, "sys.__excepthook__") = 1

Wanted(k) ==
    \/ k = "file" /\ cfg.enable_fs
    \/ k = "db" /\ cfg.enable_db
    \/ k = "console"

\* C10: handlers are registered in the order file, remote, console and the
\* hook is installed last, with nothing undone on failure: when the remote
\* sink cannot be built (no server file), enable_logging raises with the
\* file sink registered if it was asked for, and with no remote sink, no
\* console sink and no exception hook.
C10_FailFastNoRollback ==
    /\ Kinds = SubSeq(SelectSeq(<<"file", "db", "console">>, Wanted), 1,
                      Len(Kinds))
    /\ excepthook = "logging_handler" =>
          (enErr = "none" /\ Kinds # <<>> /\ Kinds[Len(Kinds)] = "console")
    /\ (cfg.enable_db /\ ~cfg.serverFile /\ enStep > Len(EnableOrder)) =>
          enErr \in {"fs", "db"}
    /\ enErr = "db" =>
          /\ cfg.enable_db /\ ~cfg.serverFile
          /\ Kinds = IF cfg.enable_fs THEN <<"file">> ELSE <<>>
          /\ excepthook = "default"
          /\ rootLevel = "WARNING"

C10_Witness ==
    /\ enErr = "db"
    /\ cfg.enable_fs
    /\ Kinds = <<"file">>
    /\ pcH = "done"
    /\ trace = <<"sys.__excepthook__">>

=============================================================================
